---- MODULE Spec2Model ----
(***************************************************************************)
(* Model of the ElDorado bookstore back office (src/bookstore_final.py).   *)
(*                                                                         *)
(* The store is the MySQL schema created by                                *)
(* DatabaseManager.initialize_database: the tables Staff, Books, Accounts, *)
(* Orders, OrderItems and BookLog with their CHECK and FOREIGN KEY         *)
(* constraints and the Books triggers.  Every staff session is one         *)
(* BookstoreApp instance with its own connection, its own current_staff    *)
(* and its own widgets (cart tree, comboboxes, pending-orders tree), all   *)
(* working against the one shared store.                                   *)
(*                                                                         *)
(* One action stands for one handler.  A handler that runs a transaction   *)
(* is one step: InnoDB keeps the rows it wrote locked until COMMIT or      *)
(* ROLLBACK, and the UPDATE statements of the handlers read the latest     *)
(* committed row, so other sessions see either all of its writes or none.  *)
(* The delete handlers (book, customer, staff) first SELECT and then run    *)
(* their DELETE as a statement of its own, committed by execute_query;     *)
(* they are two steps, and pc holds the session between them while other   *)
(* sessions run.                                                           *)
(* What a session keeps on screen between handlers (the rows of its        *)
(* pending-orders tree, the values of its comboboxes, its cart) is state   *)
(* of the model and may be stale with respect to the store.                *)
(*                                                                         *)
(* Taken from the server and the connector, not from the source:           *)
(*  - CHECK constraints are enforced (MySQL 8.0.16 or later; the schema    *)
(*    needs 8.0.13 for DEFAULT (CURRENT_DATE) anyway);                     *)
(*  - connection.start_transaction() opens the transaction of the handler  *)
(*    (the connector refuses it while a transaction is already open on     *)
(*    the connection; such a refusal ends in the handler's rollback and    *)
(*    changes no row, and the next call goes through);                     *)
(*  - a SELECT of a handler returns the committed rows.                    *)
(*                                                                         *)
(* Prices are amounts in cents.  Timestamps and names are not modelled.    *)
(* Order ids are positions in the Orders table (ids burnt by rolled-back   *)
(* inserts are not modelled).                                              *)
(***************************************************************************)
EXTENDS Integers, Sequences, FiniteSets, TLC

\* --------------------------------------------------- bounds of the model
MaxBooks == 1
MaxQty == 2
MaxCart == 2
MaxOrders == 1
MaxLog == 3
MaxStaff == 3

\* ------------------------------------------------------ input domains
Sessions == {1, 2}
\* the session at the catalog desk: both sessions run the same program under
\* the same staff id, so the store does not depend on which of them edits
CatalogSessions == {1}
BookIds == 1..MaxBooks
MaxCustomers == 2
CustomerIds == 1..MaxCustomers
CustomerPhones == {"5550000001"}
CustomerEmails == {"reader@example.com"}
\* the values the customer forms are submitted with where collisions matter
AccountPhones == CustomerPhones \cup {"5550000004"}
AccountEmails == CustomerEmails \cup {"buyer@example.com"}
QtyInputs == 0..MaxQty
Prices == {1}
\* what is typed into the Quantity and Price entries of the book forms
QuantityTexts == {"0", "1", "2"}
PriceTexts == {"0.01"}
\* the prices the update form is submitted with where a price edit matters
EditPrices == {"0.01", "1.50"}
\* the same entries, with the texts that are not a quantity or not a price
QuantityEntries == QuantityTexts \cup {"-1", "1.5", "abc", ""}
PriceEntries == EditPrices \cup {"0", "-0.01", "abc", ""}
AdminEmail == "admin@eldorado.com"
AdminPassword == "admin123"
AdminPhone == "0000000000"
Emails == {AdminEmail, "nobody@eldorado.com"}
Passwords == {AdminPassword, "guess"}
NoId == 0
\* Staff.Role; Librarian has the rights of Clerk everywhere in the program
StaffRoles == {"Manager", "Clerk"}
SecondEmail == "second@eldorado.com"
SecondPhone == "5550000002"
StaffEmails == {AdminEmail, SecondEmail, "third@eldorado.com"}
StaffPhones == {AdminPhone, SecondPhone, "5550000003"}
\* the login form and the staff forms where logins and roles matter
LoginEmails == {"", AdminEmail, SecondEmail}
LoginPasswords == {"", AdminPassword, "guess"}
LoginRoles == {"Manager", "Clerk", "Librarian"}

VARIABLES staff, nextStaffId, books, nextBookId, accounts, nextCustomerId, orders,
          orderItems, bookLog,
          current_staff, selected_update_book_id, selected_staff_id,
          selected_update_customer_id, pc, orderWindow, customer_combobox,
          book_combobox, cart, pending_orders_tree, last

vars == <<staff, nextStaffId, books, nextBookId, accounts, nextCustomerId, orders,
          orderItems, bookLog,
          current_staff, selected_update_book_id, selected_staff_id,
          selected_update_customer_id, pc, orderWindow, customer_combobox,
          book_combobox, cart, pending_orders_tree, last>>

store == <<staff, nextStaffId, books, nextBookId, accounts, nextCustomerId, orders,
           orderItems, bookLog>>
bookUi == <<selected_update_book_id>>
\* the staff and customer forms, and the handler a session is in the middle of
deskUi == <<selected_staff_id, selected_update_customer_id, pc>>
orderUi == <<orderWindow, customer_combobox, book_combobox, cart, pending_orders_tree>>

\* ------------------------------------------------------------- helpers
hash_password(password) == <<"sha256", password>>

\* what the last handler reported: the order handlers' message box (success, or
\* the error shown), nothing for the other handlers
Outcome(op, status, res) == [op |-> op, status |-> status, res |-> res]
Idle == Outcome("other", "none", "none")

\* where a session is inside a handler that reads the store and then writes it
\* in a statement of its own: between handlers it is at rest
At(op, arg) == [op |-> op, arg |-> arg]
AtRest == At("rest", NoId)

\* f"${price:.2f}" of an amount in cents, and float(text[1:]) back, in cents
FormatMoneyWholeDollars(cents) == <<"$", cents \div 100, 0>>
FormatMoney(cents) == <<"$", cents \div 100, cents % 100>>
ParseMoney(text) == text[2] * 100 + text[3]

RECURSIVE SumSeq(_)
SumSeq(q) == IF q = <<>> THEN 0 ELSE Head(q) + SumSeq(Tail(q))

RECURSIVE SelectSeqItems(_, _)
SelectSeqItems(items, o) ==
  IF items = <<>> THEN <<>>
  ELSE IF Head(items).order = o
       THEN <<Head(items)>> \o SelectSeqItems(Tail(items), o)
       ELSE SelectSeqItems(Tail(items), o)

PendingOrders == {o \in 1..Len(orders) : orders[o].status = "Pending"}

\* ------------------------------------------------------------ the store
\* int(text) and float(text): the value of the texts they convert, and a
\* ValueError for every other text.  Prices are held in cents.
IntLiterals == ("-1" :> -1) @@ ("0" :> 0) @@ ("1" :> 1) @@ ("2" :> 2)
FloatLiterals ==
  ("-1" :> -100) @@ ("0" :> 0) @@ ("1" :> 100) @@ ("2" :> 200) @@ ("1.5" :> 150)
  @@ ("-0.01" :> -1) @@ ("0.01" :> 1) @@ ("1.50" :> 150)
int(text) == IntLiterals[text]
float(text) == FloatLiterals[text]

validate_quantityNonNegative(quantity) ==
  IF quantity \in DOMAIN IntLiterals THEN int(quantity) >= 0 ELSE FALSE
validate_quantity(quantity) ==
  IF quantity \in DOMAIN IntLiterals THEN int(quantity) > 0 ELSE FALSE
validate_price(price) ==
  IF price \in DOMAIN FloatLiterals THEN float(price) >= 0 ELSE FALSE

QuantityCheckOff(quantity) == TRUE
QuantityCheck(quantity) == quantity >= 0

NoRollback(before, partial) == partial
Rollback(before, partial) == before

\* add_to_cart: if quantity > available_qty
ExceedsStockNever(quantity, available_qty) == FALSE
ExceedsStock(quantity, available_qty) == quantity > available_qty

\* place_order: if status == "Completed"
DecrementsStockAlways(status) == TRUE
DecrementsStockNever(status) == FALSE
DecrementsStock(status) == status = "Completed"

\* update_order_status: if new_status == "Completed"
CompletionSkipsStock(new_status) == FALSE
CompletionDecrementsStock(new_status) == new_status = "Completed"

\* UNIQUE (Email), UNIQUE (Phone) on Staff: another row holds the value
StaffClashNever(st, self, phone, email) == FALSE
StaffClash(st, self, phone, email) ==
  \E i \in DOMAIN st \ {self} : st[i].email = email \/ st[i].phone = phone

\* UNIQUE (Phone), UNIQUE (Email) on Accounts
AccountClash(acc, self, phone, email) ==
  \E c \in DOMAIN acc \ {self} : acc[c].phone = phone \/ acc[c].email = email

\* the rows SELECT StaffID FROM Staff WHERE Role='Manager' ranges over
Managers(st) == {i \in DOMAIN st : st[i].role = "Manager"}

\* delete_staff: managers[0][0] <= 1
LastManager(st) == Cardinality(Managers(st)) <= 1

\* delete_selected_customer: orders[0][0] > 0
HasOrders(ords, c) == \E o \in 1..Len(ords) : ords[o].customer = c

\* Orders: FOREIGN KEY (CustomerID) REFERENCES Accounts(CustomerID)
OrdersForeignKeyOff(ords, c) == FALSE
OrdersForeignKey(ords, c) == \E o \in 1..Len(ords) : ords[o].customer = c

\* a function without the row of key k
Remove(f, k) == [x \in DOMAIN f \ {k} |-> f[x]]

\* a database state as the statements of one transaction pass it along
Db(st, bk, ords, items, log) ==
  [staff |-> st, books |-> bk, orders |-> ords, orderItems |-> items, bookLog |-> log]

CurrentDb == Db(staff, books, orders, orderItems, bookLog)

Ok(db) == [ok |-> TRUE, err |-> "none", db |-> db]
Fail(err, db) == [ok |-> FALSE, err |-> err, db |-> db]

\* AFTER UPDATE ON Books: one BookLog row attributed to NEW.Update_by
AfterBookUpdateSilent(db, b) == Ok(db)
AfterBookUpdateByAdmin(db, b) ==
  Ok([db EXCEPT !.bookLog = Append(@, [book |-> b, action |-> "UPDATE", by |-> 1])])
AfterBookUpdate(db, b) ==
  IF db.books[b].updBy \notin DOMAIN db.staff
  THEN Fail("ForeignKey", db)
  ELSE Ok([db EXCEPT !.bookLog =
             Append(@, [book |-> b, action |-> "UPDATE", by |-> db.books[b].updBy])])

\* AFTER INSERT ON Books
AfterBookInsert(db, b) ==
  Ok([db EXCEPT !.bookLog =
        Append(@, [book |-> b, action |-> "INSERT", by |-> db.books[b].updBy])])

\* UPDATE Books SET Quantity = Quantity - q WHERE BookID = b
DecrementStock(db, b, q) ==
  IF b \notin DOMAIN db.books THEN Ok(db)
  ELSE IF ~QuantityCheck(db.books[b].qty - q) THEN Fail("InsufficientStock", db)
  ELSE AfterBookUpdate([db EXCEPT !.books[b].qty = @ - q], b)

\* INSERT INTO OrderItems (OrderID, BookID, Quantity, Price)
InsertOrderItem(db, o, line) ==
  IF line.book \notin DOMAIN db.books THEN Fail("ForeignKey", db)
  ELSE Ok([db EXCEPT !.orderItems =
             Append(@, [order |-> o, book |-> line.book, qty |-> line.qty,
                        price |-> ParseMoney(line.price)])])

\* INSERT INTO Orders (CustomerID, StaffID, OrderDate, TotalAmount, Status)
InsertOrder(db, customer, staffId, total, status) ==
  IF customer \notin DOMAIN accounts \/ staffId \notin DOMAIN db.staff
  THEN Fail("ForeignKey", db)
  ELSE Ok([db EXCEPT !.orders =
             Append(@, [customer |-> customer, staff |-> staffId,
                        total |-> total, status |-> status])])

\* the loop of place_order over the cart lines
RECURSIVE PlaceLines(_, _, _, _)
PlaceLines(db, o, status, lines) ==
  IF lines = <<>> THEN Ok(db)
  ELSE LET ins == InsertOrderItem(db, o, Head(lines)) IN
       IF ~ins.ok THEN ins
       ELSE IF DecrementsStock(status)
            THEN LET dec == DecrementStock(ins.db, Head(lines).book, Head(lines).qty) IN
                 IF ~dec.ok THEN dec ELSE PlaceLines(dec.db, o, status, Tail(lines))
            ELSE PlaceLines(ins.db, o, status, Tail(lines))

\* the loop of update_order_status over the order's items
RECURSIVE CompleteLines(_, _)
CompleteLines(db, items) ==
  IF items = <<>> THEN Ok(db)
  ELSE LET dec == DecrementStock(db, Head(items).book, Head(items).qty) IN
       IF ~dec.ok THEN dec ELSE CompleteLines(dec.db, Tail(items))

\* total_amount of place_order: the sum of the cart's subtotal column
CartTotalAtCatalogPrice(lines) ==
  SumSeq([i \in 1..Len(lines) |->
            IF lines[i].book \in DOMAIN books
            THEN books[lines[i].book].price * lines[i].qty ELSE 0])
CartTotal(lines) == SumSeq([i \in 1..Len(lines) |-> ParseMoney(lines[i].subtotal)])

\* the transaction of place_order
PlaceOrderTxn(db, customer, staffId, status, lines) ==
  LET ord == InsertOrder(db, customer, staffId, CartTotal(lines), status) IN
  IF ~ord.ok THEN ord
  ELSE PlaceLines(ord.db, Len(ord.db.orders), status, lines)

\* the transaction of update_order_status
UpdateStatusTxn(db, o, new_status) ==
  LET dec == IF CompletionDecrementsStock(new_status)
             THEN CompleteLines(db, SelectSeqItems(db.orderItems, o))
             ELSE Ok(db) IN
  IF ~dec.ok THEN dec
  ELSE Ok([dec.db EXCEPT !.orders[o].status = new_status])

\* delete_selected_book: if not manager_exists
ManagerExistsAlways(st) == TRUE
ManagerExists(st) == Managers(st) # {}

\* the values SET manager_id = (SELECT StaffID ... LIMIT 1) can take: any
\* Manager (the statement has no ORDER BY), NULL when there is none
ManagerIds(st) == IF Managers(st) = {} THEN {NoId} ELSE Managers(st)

\* BEFORE DELETE ON Books: one DELETE entry attributed to manager_id, none when
\* manager_id IS NULL
BeforeBookDelete(db, b, manager_id) ==
  IF manager_id = NoId THEN Ok(db)
  ELSE Ok([db EXCEPT !.bookLog =
             Append(@, [book |-> b, action |-> "DELETE", by |-> manager_id])])

\* BookLog: FOREIGN KEY (BookID) REFERENCES Books(BookID) ON DELETE CASCADE
OnDeleteCascade(log, b) == SelectSeq(log, LAMBDA e : e.book # b)

\* DELETE FROM Books WHERE BookID = b
DeleteBookRow(db, b, manager_id) ==
  IF b \notin DOMAIN db.books THEN Ok(db)
  ELSE LET trg == BeforeBookDelete(db, b, manager_id) IN
       IF \E i \in 1..Len(db.orderItems) : db.orderItems[i].book = b
       THEN Fail("ForeignKey", trg.db)
       ELSE Ok([trg.db EXCEPT !.books = Remove(@, b),
                              !.bookLog = OnDeleteCascade(@, b)])

\* the rows that hold a FOREIGN KEY to Staff row i
StaffReferencedNever(db, i) == FALSE
StaffReferenced(db, i) ==
  \/ \E b \in DOMAIN db.books : db.books[b].updBy = i
  \/ \E o \in 1..Len(db.orders) : db.orders[o].staff = i
  \/ \E e \in 1..Len(db.bookLog) : db.bookLog[e].by = i

\* DELETE FROM Staff WHERE StaffID = i
DeleteStaffRow(db, i) ==
  IF i \notin DOMAIN db.staff THEN Ok(db)
  ELSE IF StaffReferenced(db, i) THEN Fail("ForeignKey", db)
  ELSE Ok([db EXCEPT !.staff = Remove(@, i)])

\* what the transaction leaves in the store: its result, or the state
\* before it when a statement raised and the handler rolled back
Committed(db, r) == IF r.ok THEN r.db ELSE Rollback(db, r.db)

\* authenticate_staff: staff[0][3] == hashed_input
CredentialsMatchAlways(stored, hashed_input) == TRUE
CredentialsMatch(stored, hashed_input) == stored = hashed_input

\* ----------------------------------------------------------------- Init
Init ==
  /\ staff = (1 :> [role |-> "Manager", email |-> AdminEmail, phone |-> AdminPhone,
                    pwd |-> hash_password(AdminPassword)])
  /\ nextStaffId = 2
  /\ books = <<>>
  /\ nextBookId = 1
  /\ accounts = <<>>
  /\ nextCustomerId = 1
  /\ orders = <<>>
  /\ orderItems = <<>>
  /\ bookLog = <<>>
  /\ current_staff = [s \in Sessions |-> [id |-> NoId, role |-> "none"]]
  /\ selected_update_book_id = [s \in Sessions |-> NoId]
  /\ selected_staff_id = [s \in Sessions |-> NoId]
  /\ selected_update_customer_id = [s \in Sessions |-> NoId]
  /\ pc = [s \in Sessions |-> AtRest]
  /\ orderWindow = [s \in Sessions |-> FALSE]
  /\ customer_combobox = [s \in Sessions |-> {}]
  /\ book_combobox = [s \in Sessions |-> {}]
  /\ cart = [s \in Sessions |-> <<>>]
  /\ pending_orders_tree = [s \in Sessions |-> {}]
  /\ last = Idle

LoggedIn(s) == current_staff[s].id # NoId

\* the rows load_pending_orders puts in the pending-orders tree
PendingRows == {[order |-> o, status |-> orders[o].status] : o \in PendingOrders}

\* ------------------------------------------------------------- actions
authenticate_staff(s, email, password) ==
  /\ pc[s] = AtRest
  /\ ~LoggedIn(s)
  /\ LET rows == {i \in DOMAIN staff : staff[i].email = email} IN
     IF email = "" \/ password = ""
     THEN /\ UNCHANGED current_staff
          /\ last' = Idle
     ELSE IF /\ rows # {}
             /\ CredentialsMatch(staff[CHOOSE i \in rows : TRUE].pwd, hash_password(password))
     THEN LET i == CHOOSE i \in rows : TRUE IN
          /\ current_staff' = [current_staff EXCEPT ![s] = [id |-> i, role |-> staff[i].role]]
          /\ last' = Idle
     ELSE /\ UNCHANGED current_staff
          /\ last' = Idle
  /\ UNCHANGED <<deskUi, store, bookUi, orderUi>>

add_customer(s, phone, email) ==
  /\ pc[s] = AtRest
  /\ LoggedIn(s)
  /\ nextCustomerId <= MaxCustomers
  /\ IF AccountClash(accounts, NoId, phone, email)
     THEN /\ UNCHANGED <<accounts, nextCustomerId>>
          /\ last' = Outcome("add_customer", "none", "DuplicateConstraint")
     ELSE /\ accounts' = (nextCustomerId :> [phone |-> phone, email |-> email]) @@ accounts
          /\ nextCustomerId' = nextCustomerId + 1
          /\ last' = Outcome("add_customer", "none", "Success")
  /\ UNCHANGED <<deskUi, staff, nextStaffId, books, nextBookId, orders, orderItems, bookLog,
                 current_staff, bookUi, orderUi>>

add_book(s, quantity, price) ==
  /\ pc[s] = AtRest
  /\ LoggedIn(s)
  /\ nextBookId <= MaxBooks
  /\ Len(bookLog) < MaxLog
  /\ IF ~validate_quantity(quantity) \/ ~validate_price(price)
     THEN /\ UNCHANGED <<books, nextBookId, bookLog>>
          /\ last' = Outcome("add_book", "none", "ValidationError")
     ELSE IF current_staff[s].id \notin DOMAIN staff
     THEN /\ UNCHANGED <<books, nextBookId, bookLog>>
          /\ last' = Idle
     ELSE LET row == [qty |-> int(quantity), price |-> float(price),
                      updBy |-> current_staff[s].id]
              ins == [CurrentDb EXCEPT !.books = (nextBookId :> row) @@ @]
              r == AfterBookInsert(ins, nextBookId) IN
          /\ books' = Committed(CurrentDb, r).books
          /\ bookLog' = Committed(CurrentDb, r).bookLog
          /\ nextBookId' = nextBookId + 1
          /\ last' = Idle
  /\ UNCHANGED <<deskUi, staff, nextStaffId, accounts, nextCustomerId, orders, orderItems,
                 current_staff, bookUi, orderUi>>

load_book_details_for_update(s, b) ==
  /\ pc[s] = AtRest
  /\ LoggedIn(s)
  /\ b \in DOMAIN books
  /\ selected_update_book_id' = [selected_update_book_id EXCEPT ![s] = b]
  /\ last' = Idle
  /\ UNCHANGED <<deskUi, store, current_staff, orderUi>>

\* UPDATE Books SET ..., Quantity=%s, Price=%s, Update_by=%s WHERE BookID=%s
UpdateBookRow(db, b, quantity, price, staffId) ==
  IF b \notin DOMAIN db.books THEN Ok(db)
  ELSE IF staffId \notin DOMAIN db.staff THEN Fail("ForeignKey", db)
  ELSE IF ~QuantityCheck(quantity) THEN Fail("InsufficientStock", db)
  ELSE AfterBookUpdate(
         [db EXCEPT !.books[b] = [qty |-> quantity, price |-> price, updBy |-> staffId]], b)

update_book(s, quantity, price) ==
  /\ pc[s] = AtRest
  /\ LoggedIn(s)
  /\ Len(bookLog) < MaxLog
  /\ IF selected_update_book_id[s] = NoId
     THEN /\ UNCHANGED <<books, bookLog>>
          /\ last' = Idle
     ELSE IF ~validate_quantity(quantity) \/ ~validate_price(price)
     THEN /\ UNCHANGED <<books, bookLog>>
          /\ last' = Outcome("update_book", "none", "ValidationError")
     ELSE LET r == UpdateBookRow(CurrentDb, selected_update_book_id[s], int(quantity),
                                 float(price), current_staff[s].id) IN
          /\ books' = Committed(CurrentDb, r).books
          /\ bookLog' = Committed(CurrentDb, r).bookLog
          /\ last' = Idle
  /\ UNCHANGED <<deskUi, staff, nextStaffId, nextBookId, accounts, nextCustomerId, orders, orderItems,
                 current_staff, bookUi, orderUi>>

\* opening the Cart & Orders window: new widgets, filled from the store
order_management(s) ==
  /\ pc[s] = AtRest
  /\ LoggedIn(s)
  /\ orderWindow' = [orderWindow EXCEPT ![s] = TRUE]
  /\ customer_combobox' = [customer_combobox EXCEPT ![s] = DOMAIN accounts]
  /\ book_combobox' = [book_combobox EXCEPT ![s] = {b \in DOMAIN books : books[b].qty > 0}]
  /\ cart' = [cart EXCEPT ![s] = <<>>]
  /\ pending_orders_tree' = [pending_orders_tree EXCEPT ![s] = PendingRows]
  /\ last' = Idle
  /\ UNCHANGED <<deskUi, store, current_staff, bookUi>>

add_to_cart(s, b, quantity) ==
  /\ pc[s] = AtRest
  /\ orderWindow[s]
  /\ Len(cart[s]) < MaxCart
  /\ b \in book_combobox[s] \cup {NoId}
  /\ LET res == IF b = NoId THEN "NoBookSelected"
                ELSE IF quantity <= 0 THEN "QuantityNotPositive"
                ELSE IF b \notin DOMAIN books THEN "BookNotFound"
                ELSE IF ExceedsStock(quantity, books[b].qty) THEN "InsufficientStock"
                ELSE "Success" IN
     /\ cart' = IF res = "Success"
                THEN [cart EXCEPT ![s] =
                        Append(@, [book |-> b, qty |-> quantity,
                                   price |-> FormatMoney(books[b].price),
                                   subtotal |-> FormatMoney(books[b].price * quantity)])]
                ELSE cart
     /\ last' = Idle
  /\ UNCHANGED <<deskUi, store, current_staff, bookUi, orderWindow, customer_combobox,
                 book_combobox, pending_orders_tree>>

clear_cart(s) ==
  /\ pc[s] = AtRest
  /\ orderWindow[s]
  /\ cart[s] # <<>>
  /\ cart' = [cart EXCEPT ![s] = <<>>]
  /\ last' = Idle
  /\ UNCHANGED <<deskUi, store, current_staff, bookUi, orderWindow, customer_combobox,
                 book_combobox, pending_orders_tree>>

load_pending_orders(s) ==
  /\ pc[s] = AtRest
  /\ orderWindow[s]
  /\ pending_orders_tree' = [pending_orders_tree EXCEPT ![s] = PendingRows]
  /\ last' = Idle
  /\ UNCHANGED <<deskUi, store, current_staff, bookUi, orderWindow, customer_combobox,
                 book_combobox, cart>>

place_order(s, status, customer) ==
  /\ pc[s] = AtRest
  /\ orderWindow[s]
  /\ customer \in customer_combobox[s] \cup {NoId}
  /\ IF customer = NoId
     THEN /\ UNCHANGED <<orders, orderItems, books, bookLog, cart, pending_orders_tree>>
          /\ last' = Outcome("place_order", status, "NoCustomer")
     ELSE IF cart[s] = <<>>
     THEN /\ UNCHANGED <<orders, orderItems, books, bookLog, cart, pending_orders_tree>>
          /\ last' = Outcome("place_order", status, "EmptyCart")
     ELSE LET r == PlaceOrderTxn(CurrentDb, customer, current_staff[s].id, status, cart[s])
              db == Committed(CurrentDb, r) IN
          /\ Len(db.orders) <= MaxOrders
          /\ Len(db.bookLog) <= MaxLog
          /\ orders' = db.orders
          /\ orderItems' = db.orderItems
          /\ books' = db.books
          /\ bookLog' = db.bookLog
          /\ IF r.ok
             THEN /\ cart' = [cart EXCEPT ![s] = <<>>]
                  /\ pending_orders_tree' =
                       [pending_orders_tree EXCEPT ![s] =
                          {[order |-> o, status |-> db.orders[o].status] :
                             o \in {i \in 1..Len(db.orders) : db.orders[i].status = "Pending"}}]
                  /\ last' = Outcome("place_order", status, "Success")
             ELSE /\ UNCHANGED <<cart, pending_orders_tree>>
                  /\ last' = Outcome("place_order", status, r.err)
  /\ UNCHANGED <<deskUi, staff, nextStaffId, nextBookId, accounts, nextCustomerId, current_staff, bookUi,
                 orderWindow, customer_combobox, book_combobox>>

update_order_status(s, row, new_status) ==
  /\ pc[s] = AtRest
  /\ orderWindow[s]
  /\ row \in pending_orders_tree[s]
  /\ IF row.status # "Pending"
     THEN /\ UNCHANGED <<orders, books, bookLog, pending_orders_tree>>
          /\ last' = Outcome("update_order_status", new_status, "InvalidTransition")
     ELSE LET r == UpdateStatusTxn(CurrentDb, row.order, new_status)
              db == Committed(CurrentDb, r) IN
          /\ Len(db.bookLog) <= MaxLog
          /\ orders' = db.orders
          /\ books' = db.books
          /\ bookLog' = db.bookLog
          /\ IF r.ok
             THEN /\ pending_orders_tree' =
                       [pending_orders_tree EXCEPT ![s] =
                          {[order |-> o, status |-> db.orders[o].status] :
                             o \in {i \in 1..Len(db.orders) : db.orders[i].status = "Pending"}}]
                  /\ last' = Outcome("update_order_status", new_status, "Success")
             ELSE /\ UNCHANGED pending_orders_tree
                  /\ last' = Outcome("update_order_status", new_status, r.err)
  /\ UNCHANGED <<deskUi, staff, nextStaffId, nextBookId, accounts, nextCustomerId, orderItems, current_staff,
                 bookUi, orderWindow, customer_combobox, book_combobox, cart>>

\* ---- Book Management: delete.  The handler looks for a Manager, then runs
\* the DELETE as a statement of its own.
delete_selected_book(s, b) ==
  /\ pc[s] = AtRest
  /\ LoggedIn(s)
  /\ b \in 1..(nextBookId - 1)
  /\ IF ~ManagerExists(staff)
     THEN /\ pc' = pc
          /\ last' = Outcome("delete_selected_book", "none", "NoManagerForAudit")
     ELSE /\ pc' = [pc EXCEPT ![s] = At("delete_selected_book", b)]
          /\ last' = Idle
  /\ UNCHANGED <<store, current_staff, bookUi, selected_staff_id,
                 selected_update_customer_id, orderUi>>

delete_selected_book_DELETE(s) ==
  /\ pc[s].op = "delete_selected_book"
  /\ \E manager_id \in ManagerIds(staff) :
       LET r == DeleteBookRow(CurrentDb, pc[s].arg, manager_id)
           db == Committed(CurrentDb, r) IN
       /\ books' = db.books
       /\ bookLog' = db.bookLog
       /\ last' = Outcome("delete_selected_book", "none",
                          IF r.ok THEN "Success" ELSE r.err)
  /\ pc' = [pc EXCEPT ![s] = AtRest]
  /\ UNCHANGED <<staff, nextStaffId, nextBookId, accounts, nextCustomerId, orders,
                 orderItems, current_staff, bookUi, selected_staff_id,
                 selected_update_customer_id, orderUi>>

\* ---- Staff Management (the button is enabled for the role Manager, as it
\* was at login)
StaffDeskOpen(s) == LoggedIn(s)
StaffDeskStoredRole(s) ==
  /\ LoggedIn(s)
  /\ current_staff[s].id \in DOMAIN staff
  /\ staff[current_staff[s].id].role = "Manager"
StaffDesk(s) == LoggedIn(s) /\ current_staff[s].role = "Manager"

load_staff_details(s, i) ==
  /\ pc[s] = AtRest
  /\ StaffDesk(s)
  /\ i \in DOMAIN staff
  /\ selected_staff_id' = [selected_staff_id EXCEPT ![s] = i]
  /\ last' = Idle
  /\ UNCHANGED <<store, current_staff, bookUi, selected_update_customer_id, pc, orderUi>>

add_staff(s, role, phone, email, password) ==
  /\ pc[s] = AtRest
  /\ StaffDesk(s)
  /\ nextStaffId <= MaxStaff
  /\ IF StaffClash(staff, NoId, phone, email)
     THEN /\ UNCHANGED <<staff, nextStaffId>>
          /\ last' = Outcome("add_staff", "none", "DuplicateConstraint")
     ELSE /\ staff' = (nextStaffId :> [role |-> role, email |-> email, phone |-> phone,
                                       pwd |-> hash_password(password)]) @@ staff
          /\ nextStaffId' = nextStaffId + 1
          /\ last' = Outcome("add_staff", "none", "Success")
  /\ UNCHANGED <<books, nextBookId, accounts, nextCustomerId, orders, orderItems, bookLog,
                 current_staff, bookUi, deskUi, orderUi>>

\* password = "" leaves PasswordHash as it is
update_staff(s, role, phone, email, password) ==
  /\ pc[s] = AtRest
  /\ StaffDesk(s)
  /\ LET i == selected_staff_id[s] IN
     IF i = NoId
     THEN /\ UNCHANGED staff
          /\ last' = Outcome("update_staff", "none", "NoStaffSelected")
     ELSE IF i \notin DOMAIN staff
     THEN /\ UNCHANGED staff
          /\ last' = Outcome("update_staff", "none", "Success")
     ELSE IF StaffClash(staff, i, phone, email)
     THEN /\ UNCHANGED staff
          /\ last' = Outcome("update_staff", "none", "DuplicateConstraint")
     ELSE /\ staff' = [staff EXCEPT ![i] =
                         [role |-> role, email |-> email, phone |-> phone,
                          pwd |-> IF password = "" THEN @.pwd
                                  ELSE hash_password(password)]]
          /\ last' = Outcome("update_staff", "none", "Success")
  /\ UNCHANGED <<nextStaffId, books, nextBookId, accounts, nextCustomerId, orders,
                 orderItems, bookLog, current_staff, bookUi, deskUi, orderUi>>

\* the target is the staff member who is logged in
IsSelfNever(current_id, staff_id) == FALSE
IsSelf(current_id, staff_id) == current_id = staff_id

\* delete_staff up to its two SELECTs: the refusals, or on to the DELETE
delete_staff(s) ==
  /\ pc[s] = AtRest
  /\ StaffDesk(s)
  /\ LET i == selected_staff_id[s] IN
     IF i = NoId
     THEN /\ pc' = pc
          /\ last' = Outcome("delete_staff", "none", "NoStaffSelected")
     ELSE IF IsSelf(current_staff[s].id, i)
     THEN /\ pc' = pc
          /\ last' = Outcome("delete_staff", "none", "SelfDelete")
     ELSE IF i \in Managers(staff) /\ LastManager(staff)
     THEN /\ pc' = pc
          /\ last' = Outcome("delete_staff", "none", "LastManagerError")
     ELSE /\ pc' = [pc EXCEPT ![s] = At("delete_staff", i)]
          /\ last' = Idle
  /\ UNCHANGED <<store, current_staff, bookUi, selected_staff_id,
                 selected_update_customer_id, orderUi>>

delete_staff_DELETE(s) ==
  /\ pc[s].op = "delete_staff"
  /\ LET r == DeleteStaffRow(CurrentDb, pc[s].arg)
         db == Committed(CurrentDb, r) IN
     /\ staff' = db.staff
     /\ last' = Outcome("delete_staff", "none", IF r.ok THEN "Success" ELSE r.err)
  /\ pc' = [pc EXCEPT ![s] = AtRest]
  /\ UNCHANGED <<nextStaffId, books, nextBookId, accounts, nextCustomerId, orders,
                 orderItems, bookLog, current_staff, bookUi, selected_staff_id,
                 selected_update_customer_id, orderUi>>

\* ---- Reports: the window only reads the store
show_reports(s) ==
  /\ pc[s] = AtRest
  /\ StaffDesk(s)
  /\ last' = Outcome("show_reports", "none", "Opened")
  /\ UNCHANGED <<store, current_staff, bookUi, deskUi, orderUi>>

\* ---- Customer Management
load_customer_details_for_update(s, c) ==
  /\ pc[s] = AtRest
  /\ LoggedIn(s)
  /\ c \in DOMAIN accounts
  /\ selected_update_customer_id' = [selected_update_customer_id EXCEPT ![s] = c]
  /\ last' = Idle
  /\ UNCHANGED <<store, current_staff, bookUi, selected_staff_id, pc, orderUi>>

update_customer(s, phone, email) ==
  /\ pc[s] = AtRest
  /\ LoggedIn(s)
  /\ LET c == selected_update_customer_id[s] IN
     IF c = NoId
     THEN /\ UNCHANGED accounts
          /\ last' = Outcome("update_customer", "none", "NoCustomerSelected")
     ELSE IF c \notin DOMAIN accounts
     THEN /\ UNCHANGED accounts
          /\ last' = Outcome("update_customer", "none", "Success")
     ELSE IF AccountClash(accounts, c, phone, email)
     THEN /\ UNCHANGED accounts
          /\ last' = Outcome("update_customer", "none", "DuplicateConstraint")
     ELSE /\ accounts' = [accounts EXCEPT ![c] = [phone |-> phone, email |-> email]]
          /\ last' = Outcome("update_customer", "none", "Success")
  /\ UNCHANGED <<staff, nextStaffId, books, nextBookId, nextCustomerId, orders,
                 orderItems, bookLog, current_staff, bookUi, deskUi, orderUi>>

\* delete_selected_customer up to its SELECT COUNT(*): the refusal, or on to
\* the DELETE
delete_selected_customer(s, c) ==
  /\ pc[s] = AtRest
  /\ LoggedIn(s)
  /\ c \in 1..(nextCustomerId - 1)
  /\ IF HasOrders(orders, c)
     THEN /\ pc' = pc
          /\ last' = Outcome("delete_selected_customer", "none", "ReferentialConflict")
     ELSE /\ pc' = [pc EXCEPT ![s] = At("delete_selected_customer", c)]
          /\ last' = Idle
  /\ UNCHANGED <<store, current_staff, bookUi, selected_staff_id,
                 selected_update_customer_id, orderUi>>

delete_selected_customer_DELETE(s) ==
  /\ pc[s].op = "delete_selected_customer"
  /\ LET c == pc[s].arg IN
     IF c \notin DOMAIN accounts
     THEN /\ UNCHANGED accounts
          /\ last' = Outcome("delete_selected_customer", "none", "Success")
     ELSE IF OrdersForeignKey(orders, c)
     THEN /\ UNCHANGED accounts
          /\ last' = Outcome("delete_selected_customer", "none", "ForeignKey")
     ELSE /\ accounts' = Remove(accounts, c)
          /\ last' = Outcome("delete_selected_customer", "none", "Success")
  /\ pc' = [pc EXCEPT ![s] = AtRest]
  /\ UNCHANGED <<staff, nextStaffId, books, nextBookId, nextCustomerId, orders,
                 orderItems, bookLog, current_staff, bookUi, selected_staff_id,
                 selected_update_customer_id, orderUi>>

\* login, the customer and catalog forms and the order desk, from the state
\* after construction; the scenarios below start from states the handlers reach
\* and add the deletions, the staff forms and price edits
Next ==
  \/ \E s \in Sessions, e \in Emails, p \in Passwords : authenticate_staff(s, e, p)
  \/ \E s \in Sessions, ph \in CustomerPhones, e \in CustomerEmails : add_customer(s, ph, e)
  \/ \E s \in CatalogSessions, q \in QuantityTexts, p \in PriceTexts : add_book(s, q, p)
  \/ \E s \in CatalogSessions, b \in BookIds : load_book_details_for_update(s, b)
  \/ \E s \in CatalogSessions, q \in QuantityTexts, p \in PriceTexts : update_book(s, q, p)
  \/ \E s \in Sessions : order_management(s)
  \/ \E s \in Sessions, b \in BookIds \cup {NoId}, q \in QtyInputs : add_to_cart(s, b, q)
  \/ \E s \in Sessions : clear_cart(s)
  \/ \E s \in Sessions : load_pending_orders(s)
  \/ \E s \in Sessions, st \in {"Completed", "Pending"}, c \in CustomerIds \cup {NoId} :
       place_order(s, st, c)
  \/ \E s \in Sessions, o \in 1..MaxOrders, st \in {"Completed", "Cancelled"} :
       update_order_status(s, [order |-> o, status |-> "Pending"], st)

Spec == Init /\ [][Next]_vars

\* -------------------------------------------------------------------
\* The order desk: the store and the two sessions after Admin has logged in on
\* both, added the customer and one book, selected the book in the update form
\* and opened the Cart & Orders window; from there the catalog edit and the
\* order handlers run in any order.
InitOrders ==
  /\ staff = (1 :> [role |-> "Manager", email |-> AdminEmail, phone |-> AdminPhone,
                    pwd |-> hash_password(AdminPassword)])
  /\ nextStaffId = 2
  /\ \E q \in 1..MaxQty, p \in Prices :
       books = (1 :> [qty |-> q, price |-> p, updBy |-> 1])
  /\ nextBookId = 2
  /\ accounts = (1 :> [phone |-> CHOOSE ph \in CustomerPhones : TRUE,
                        email |-> CHOOSE e \in CustomerEmails : TRUE])
  /\ nextCustomerId = 2
  /\ orders = <<>>
  /\ orderItems = <<>>
  /\ bookLog = <<[book |-> 1, action |-> "INSERT", by |-> 1]>>
  /\ current_staff = [s \in Sessions |-> [id |-> 1, role |-> "Manager"]]
  /\ selected_update_book_id = [s \in Sessions |-> 1]
  /\ selected_staff_id = [s \in Sessions |-> NoId]
  /\ selected_update_customer_id = [s \in Sessions |-> NoId]
  /\ pc = [s \in Sessions |-> AtRest]
  /\ orderWindow = [s \in Sessions |-> TRUE]
  /\ customer_combobox = [s \in Sessions |-> {1}]
  /\ book_combobox = [s \in Sessions |-> {1}]
  /\ cart = [s \in Sessions |-> <<>>]
  /\ pending_orders_tree = [s \in Sessions |-> {}]
  /\ last = Idle

NextOrders ==
  \/ \E s \in Sessions, q \in QuantityTexts, p \in PriceTexts : update_book(s, q, p)
  \/ \E s \in Sessions, b \in BookIds \cup {NoId}, q \in QtyInputs : add_to_cart(s, b, q)
  \/ \E s \in Sessions : clear_cart(s)
  \/ \E s \in Sessions : load_pending_orders(s)
  \/ \E s \in Sessions, st \in {"Completed", "Pending"}, c \in CustomerIds \cup {NoId} :
       place_order(s, st, c)
  \/ \E s \in Sessions, o \in 1..MaxOrders, st \in {"Completed", "Cancelled"} :
       update_order_status(s, [order |-> o, status |-> "Pending"], st)

SpecOrders == InitOrders /\ [][NextOrders]_vars

\* -------------------------------------------------------------------
\* The back office: Admin has added a second Manager, and each of them has
\* logged in on a session of their own.  From there the catalog and the staff
\* table are edited in any order; the staff form is submitted as loaded, with
\* the role changed or not.
InitDesk ==
  /\ staff = (1 :> [role |-> "Manager", email |-> AdminEmail, phone |-> AdminPhone,
                    pwd |-> hash_password(AdminPassword)])
             @@ (2 :> [role |-> "Manager", email |-> SecondEmail, phone |-> SecondPhone,
                       pwd |-> hash_password(AdminPassword)])
  /\ nextStaffId = 3
  /\ books = <<>>
  /\ nextBookId = 1
  /\ accounts = <<>>
  /\ nextCustomerId = 1
  /\ orders = <<>>
  /\ orderItems = <<>>
  /\ bookLog = <<>>
  /\ current_staff = [s \in Sessions |-> [id |-> s, role |-> "Manager"]]
  /\ selected_update_book_id = [s \in Sessions |-> NoId]
  /\ selected_staff_id = [s \in Sessions |-> NoId]
  /\ selected_update_customer_id = [s \in Sessions |-> NoId]
  /\ pc = [s \in Sessions |-> AtRest]
  /\ orderWindow = [s \in Sessions |-> FALSE]
  /\ customer_combobox = [s \in Sessions |-> {}]
  /\ book_combobox = [s \in Sessions |-> {}]
  /\ cart = [s \in Sessions |-> <<>>]
  /\ pending_orders_tree = [s \in Sessions |-> {}]
  /\ last = Idle

NextDesk ==
  \/ \E s \in Sessions, q \in QuantityTexts, p \in PriceTexts : add_book(s, q, p)
  \/ \E s \in Sessions, b \in BookIds : load_book_details_for_update(s, b)
  \/ \E s \in Sessions, q \in QuantityTexts, p \in PriceTexts : update_book(s, q, p)
  \/ \E s \in Sessions, b \in BookIds : delete_selected_book(s, b)
  \/ \E s \in Sessions : delete_selected_book_DELETE(s)
  \/ \E s \in Sessions, i \in 1..MaxStaff : load_staff_details(s, i)
  \/ \E s \in Sessions, r \in StaffRoles :
       add_staff(s, r, "5550000003", "third@eldorado.com", AdminPassword)
  \/ \E s \in Sessions, r \in StaffRoles :
       /\ selected_staff_id[s] \in DOMAIN staff
       /\ update_staff(s, r, staff[selected_staff_id[s]].phone,
                       staff[selected_staff_id[s]].email, "")
  \/ \E s \in Sessions : delete_staff(s)
  \/ \E s \in Sessions : delete_staff_DELETE(s)

SpecDesk == InitDesk /\ [][NextDesk]_vars

\* -------------------------------------------------------------------
\* Deletions against the order desk: the two Managers are logged in, Admin has
\* added the customer and one book and both sessions have the book in the
\* update form and the Cart & Orders window open.  Orders are committed and
\* the catalog is edited while the book, the customer and the staff rows are
\* being deleted.
InitRefs ==
  /\ staff = (1 :> [role |-> "Manager", email |-> AdminEmail, phone |-> AdminPhone,
                    pwd |-> hash_password(AdminPassword)])
             @@ (2 :> [role |-> "Manager", email |-> SecondEmail, phone |-> SecondPhone,
                       pwd |-> hash_password(AdminPassword)])
  /\ nextStaffId = 3
  /\ \E q \in 1..MaxQty, p \in Prices :
       books = (1 :> [qty |-> q, price |-> p, updBy |-> 1])
  /\ nextBookId = 2
  /\ accounts = (1 :> [phone |-> CHOOSE ph \in CustomerPhones : TRUE,
                        email |-> CHOOSE e \in CustomerEmails : TRUE])
  /\ nextCustomerId = 2
  /\ orders = <<>>
  /\ orderItems = <<>>
  /\ bookLog = <<[book |-> 1, action |-> "INSERT", by |-> 1]>>
  /\ current_staff = [s \in Sessions |-> [id |-> s, role |-> "Manager"]]
  /\ selected_update_book_id = [s \in Sessions |-> 1]
  /\ selected_staff_id = [s \in Sessions |-> NoId]
  /\ selected_update_customer_id = [s \in Sessions |-> NoId]
  /\ pc = [s \in Sessions |-> AtRest]
  /\ orderWindow = [s \in Sessions |-> TRUE]
  /\ customer_combobox = [s \in Sessions |-> {1}]
  /\ book_combobox = [s \in Sessions |-> {1}]
  /\ cart = [s \in Sessions |-> <<>>]
  /\ pending_orders_tree = [s \in Sessions |-> {}]
  /\ last = Idle

\* session 1 runs the deletions, session 2 sells and edits the catalog
RefsDeleting == {1}
RefsSelling == {2}

NextRefs ==
  \/ \E s \in RefsSelling, q \in QuantityTexts, p \in PriceTexts : update_book(s, q, p)
  \/ \E s \in RefsDeleting, b \in BookIds : delete_selected_book(s, b)
  \/ \E s \in RefsDeleting : delete_selected_book_DELETE(s)
  \/ \E s \in RefsDeleting, c \in CustomerIds : delete_selected_customer(s, c)
  \/ \E s \in RefsDeleting : delete_selected_customer_DELETE(s)
  \/ \E s \in RefsDeleting, i \in 1..MaxStaff : load_staff_details(s, i)
  \/ \E s \in RefsDeleting : delete_staff(s)
  \/ \E s \in RefsDeleting : delete_staff_DELETE(s)
  \/ \E s \in RefsSelling, b \in BookIds \cup {NoId}, q \in QtyInputs : add_to_cart(s, b, q)
  \/ \E s \in RefsSelling, st \in {"Completed", "Pending"}, c \in CustomerIds \cup {NoId} :
       place_order(s, st, c)

SpecRefs == InitRefs /\ [][NextRefs]_vars

\* -------------------------------------------------------------------
\* The order desk under price edits: from the state of InitOrders, session 1
\* edits the book (stock and price) and session 2 fills its cart, commits and
\* completes or cancels.
PricesEditing == {1}
PricesSelling == {2}

NextPrices ==
  \/ \E s \in PricesEditing, q \in QuantityTexts, p \in EditPrices : update_book(s, q, p)
  \/ \E s \in PricesSelling, b \in BookIds \cup {NoId}, q \in QtyInputs : add_to_cart(s, b, q)
  \/ \E s \in PricesSelling : clear_cart(s)
  \/ \E s \in PricesSelling, st \in {"Completed", "Pending"}, c \in CustomerIds \cup {NoId} :
       place_order(s, st, c)
  \/ \E s \in PricesSelling, o \in 1..MaxOrders, st \in {"Completed", "Cancelled"} :
       update_order_status(s, [order |-> o, status |-> "Pending"], st)

SpecPrices == InitOrders /\ [][NextPrices]_vars

\* -------------------------------------------------------------------
\* The staff and customer forms, from the state of InitDesk: rows are added
\* and edited with any of the phones and emails (each handler is a single
\* statement, so one session shows every order of them).
ContactsSessions == {1}

NextContacts ==
  \/ \E s \in ContactsSessions, i \in 1..MaxStaff : load_staff_details(s, i)
  \/ \E s \in ContactsSessions, ph \in StaffPhones, e \in StaffEmails :
       add_staff(s, "Clerk", ph, e, AdminPassword)
  \/ \E s \in ContactsSessions, ph \in StaffPhones, e \in StaffEmails :
       update_staff(s, "Manager", ph, e, "")
  \/ \E s \in ContactsSessions, ph \in AccountPhones, e \in AccountEmails :
       add_customer(s, ph, e)
  \/ \E s \in ContactsSessions, c \in CustomerIds : load_customer_details_for_update(s, c)
  \/ \E s \in ContactsSessions, ph \in AccountPhones, e \in AccountEmails :
       update_customer(s, ph, e)

SpecContacts == InitDesk /\ [][NextContacts]_vars

\* -------------------------------------------------------------------
\* Logins and roles, from the state after construction: sessions log in with
\* any of the emails and passwords, a second staff member is added, edited
\* (role, password) and deleted, and the sessions that are in open the order
\* desk.
NextLogin ==
  \/ \E s \in Sessions, e \in LoginEmails, p \in LoginPasswords : authenticate_staff(s, e, p)
  \/ \E s \in Sessions, i \in 1..MaxStaff : load_staff_details(s, i)
  \/ \E s \in Sessions, r \in LoginRoles : add_staff(s, r, SecondPhone, SecondEmail, "guess")
  \/ \E s \in Sessions, r \in LoginRoles, p \in {"", "guess"} :
       /\ selected_staff_id[s] \in DOMAIN staff
       /\ update_staff(s, r, staff[selected_staff_id[s]].phone,
                       staff[selected_staff_id[s]].email, p)
  \/ \E s \in Sessions : delete_staff(s)
  \/ \E s \in Sessions : delete_staff_DELETE(s)
  \/ \E s \in Sessions : order_management(s)
  \/ \E s \in Sessions : show_reports(s)

SpecLogin == Init /\ [][NextLogin]_vars

\* -------------------------------------------------------------------
\* The book forms, from the state of InitDesk: either session adds the book,
\* both edit it, with every text of the Quantity and Price entries, and
\* delete it.
NextCatalog ==
  \/ \E s \in Sessions, q \in QuantityEntries, p \in PriceEntries : add_book(s, q, p)
  \/ \E s \in Sessions, b \in BookIds : load_book_details_for_update(s, b)
  \/ \E s \in Sessions, q \in QuantityEntries, p \in PriceEntries : update_book(s, q, p)
  \/ \E s \in Sessions, b \in BookIds : delete_selected_book(s, b)
  \/ \E s \in Sessions : delete_selected_book_DELETE(s)

SpecCatalog == InitDesk /\ [][NextCatalog]_vars

\* -------------------------------------------------------------------
\* Stock taken by orders, from the state of InitRefs: both staff members edit
\* the book, the second one sells it, as Completed at once or as Pending and
\* completed or cancelled later.
NextStock ==
  \/ \E s \in Sessions, q \in QuantityTexts, p \in PriceTexts : update_book(s, q, p)
  \/ \E s \in RefsSelling, b \in BookIds \cup {NoId}, q \in QtyInputs : add_to_cart(s, b, q)
  \/ \E s \in RefsSelling, st \in {"Completed", "Pending"}, c \in CustomerIds \cup {NoId} :
       place_order(s, st, c)
  \/ \E s \in RefsSelling, o \in 1..MaxOrders, st \in {"Completed", "Cancelled"} :
       update_order_status(s, [order |-> o, status |-> "Pending"], st)

SpecStock == InitRefs /\ [][NextStock]_vars

\* ===================================================================
\* Properties
\* ===================================================================
Row(o) == [order |-> o, status |-> "Pending"]
ItemsOf(o) == SelectSeqItems(orderItems, o)
OrderOps == {"place_order", "update_order_status"}

\* the quantities that the lines of a sequence of lines ask of book b
RECURSIVE QtyFor(_, _)
QtyFor(lines, b) ==
  IF lines = <<>> THEN 0
  ELSE (IF Head(lines).book = b THEN Head(lines).qty ELSE 0) + QtyFor(Tail(lines), b)

\* every book has enough stock for all the lines that name it, taken together
JointFit(lines) == \A b \in DOMAIN books : QtyFor(lines, b) <= books[b].qty

\* each line alone fits the stock of its book
EachFits(lines) ==
  \A i \in 1..Len(lines) :
    lines[i].book \in DOMAIN books /\ lines[i].qty <= books[lines[i].book].qty

\* the rows a commit by session s for customer c refers to exist
RefsExist(s, c) ==
  /\ c \in DOMAIN accounts
  /\ current_staff[s].id \in DOMAIN staff
  /\ \A i \in 1..Len(cart[s]) : cart[s][i].book \in DOMAIN books

\* C1: every Book's quantity is >= 0 in every reachable state, and an order
\* operation rejected because it would drive a quantity below zero changes no
\* row of the store.
C1_QuantityNeverNegative ==
  /\ [](\A b \in DOMAIN books : books[b].qty >= 0)
  /\ [][last'.res = "InsufficientStock" => UNCHANGED store]_vars

C1_Witness ==
  /\ last.op \in OrderOps
  /\ last.res = "InsufficientStock"
  /\ \E b \in DOMAIN books : books[b].qty = 0

\* C2: once an order is Completed, any further complete on it (also from a
\* session whose pending list still shows it) fails with InvalidTransition and
\* leaves every book's quantity unchanged.
C2_CompleteAtMostOnce ==
  [][\A s \in Sessions, o \in 1..MaxOrders :
       (/\ o <= Len(orders)
        /\ orders[o].status = "Completed"
        /\ update_order_status(s, Row(o), "Completed"))
       => (last'.res = "InvalidTransition" /\ books' = books)]_vars

\* C3: the stored status of an order changes only from Pending to Completed or
\* Cancelled, and a complete or cancel on an order whose stored status is
\* Completed or Cancelled changes no row.
C3_StatusMonotonic ==
  [][\A o \in 1..Len(orders) :
       /\ orders'[o].status # orders[o].status
            => (orders[o].status = "Pending"
                /\ orders'[o].status \in {"Completed", "Cancelled"})
       /\ \A s \in Sessions, st \in {"Completed", "Cancelled"} :
            (orders[o].status # "Pending" /\ update_order_status(s, Row(o), st))
            => UNCHANGED store]_vars

C5_CommitAllOrNothing ==
  [][\A s \in Sessions, c \in CustomerIds :
       (/\ place_order(s, "Completed", c)
        /\ cart[s] # <<>>
        /\ RefsExist(s, c)
        /\ ~JointFit(cart[s]))
       => /\ last'.res = "InsufficientStock"
          /\ UNCHANGED <<orders, orderItems, books, bookLog>>]_vars

C5_Witness ==
  /\ last = Outcome("place_order", "Completed", "InsufficientStock")
  /\ orders = <<>>
  /\ \E s \in Sessions :
       /\ Len(cart[s]) = 2
       /\ EachFits(cart[s])
       /\ ~JointFit(cart[s])

\* C6: a commit, as Pending or as Completed, whose cart holds a line larger
\* than the book's current stock fails with InsufficientStock and creates no
\* Order and no OrderItem.
C6_CommitRevalidatesStock ==
  [][\A s \in Sessions, c \in CustomerIds, st \in {"Completed", "Pending"} :
       (/\ place_order(s, st, c)
        /\ RefsExist(s, c)
        /\ \E i \in 1..Len(cart[s]) : cart[s][i].qty > books[cart[s][i].book].qty)
       => /\ last'.res = "InsufficientStock"
          /\ UNCHANGED <<orders, orderItems>>]_vars

C8_CompleteFailsClean ==
  [][\A s \in Sessions, o \in 1..MaxOrders :
       (/\ o <= Len(orders)
        /\ update_order_status(s, Row(o), "Completed")
        /\ ~JointFit(ItemsOf(o)))
       => /\ last'.res = "InsufficientStock"
          /\ UNCHANGED <<orders, books, bookLog>>]_vars

C8_Witness ==
  /\ last = Outcome("update_order_status", "Completed", "InsufficientStock")
  /\ \E o \in 1..Len(orders) :
       /\ orders[o].status = "Pending"
       /\ Len(ItemsOf(o)) = 2
       /\ EachFits(ItemsOf(o))
       /\ ~JointFit(ItemsOf(o))

\* C9: commit as Pending and cancel leave every book's quantity unchanged; an
\* order operation that changes a quantity is a successful commit as Completed
\* or a successful complete.
C9_OnlyCompletionTouchesStock ==
  [][/\ \A s \in Sessions, c \in CustomerIds \cup {NoId} :
          place_order(s, "Pending", c) => books' = books
     /\ \A s \in Sessions, o \in 1..MaxOrders :
          update_order_status(s, Row(o), "Cancelled") => books' = books
     /\ (books' # books /\ last'.op \in OrderOps)
          => (last'.status = "Completed" /\ last'.res = "Success")]_vars

C9_Witness ==
  /\ last = Outcome("update_order_status", "Cancelled", "Success")
  /\ \E o \in 1..Len(orders) :
       /\ orders[o].status = "Cancelled"
       /\ \E b \in DOMAIN books : QtyFor(ItemsOf(o), b) = books[b].qty

\* C10: no order operation takes more from a book than the book holds when the
\* operation runs, whichever session's cart or pending list it comes from: a
\* successful one leaves the quantity >= 0 and never raises it, a failed one
\* leaves it as it was.
C10_NoOversell ==
  [][last'.op \in OrderOps =>
       \A b \in DOMAIN books :
         /\ b \in DOMAIN books'
         /\ books'[b].qty >= 0
         /\ books'[b].qty <= books[b].qty
         /\ last'.res # "Success" => books'[b] = books[b]]_vars

C10_Witness ==
  /\ last = Outcome("place_order", "Completed", "InsufficientStock")
  /\ \E s \in Sessions, o \in 1..Len(orders), b \in DOMAIN books :
       /\ orders[o].status = "Completed"
       /\ QtyFor(ItemsOf(o), b) > 0
       /\ cart[s] # <<>>
       /\ QtyFor(cart[s], b) > books[b].qty
       /\ QtyFor(cart[s], b) <= books[b].qty + QtyFor(ItemsOf(o), b)

\* C11: a delete of a Book that finds no Staff row with role Manager fails with
\* NoManagerForAudit, never reaches its DELETE statement and changes no row of
\* the store: the Book row, its quantity and the BookLog are as before.
C11_NoManagerNoDelete ==
  [][\A s \in Sessions, b \in BookIds :
       (delete_selected_book(s, b) /\ Managers(staff) = {})
       => /\ last'.res = "NoManagerForAudit"
          /\ pc'[s] = AtRest
          /\ UNCHANGED store]_vars

C11_Witness ==
  /\ last = Outcome("delete_selected_book", "none", "NoManagerForAudit")
  /\ Managers(staff) = {}
  /\ \E b \in DOMAIN books : books[b].qty > 0
  /\ bookLog # <<>>

\* C12: whenever a Book row disappears, the BookLog of the state it leaves
\* holds a DELETE entry for that book whose actor is a Staff row with role
\* Manager at that moment.
C12_DeleteIsLogged ==
  [][\A b \in DOMAIN books :
       b \notin DOMAIN books'
       => \E e \in 1..Len(bookLog') :
            /\ bookLog'[e].book = b
            /\ bookLog'[e].action = "DELETE"
            /\ bookLog'[e].by \in Managers(staff')]_vars

\* C13: the BookLog only grows at its end: every step keeps the entries
\* already written, in their order, and a step that inserts, changes or deletes
\* a Book row adds an entry.
C13_BookLogAppendOnly ==
  [][/\ Len(bookLog') >= Len(bookLog)
     /\ SubSeq(bookLog', 1, Len(bookLog)) = bookLog
     /\ books' # books => Len(bookLog') > Len(bookLog)]_vars

\* C14: a delete-staff aimed at the only Manager fails with LastManagerError
\* and leaves the Staff table as it is, and no step of a delete-staff, in any
\* interleaving of the sessions, takes the store from at least one Manager to
\* none.
C14_LastManagerStays ==
  [][\A s \in Sessions :
       /\ (/\ delete_staff(s)
           /\ selected_staff_id[s] # current_staff[s].id
           /\ Managers(staff) = {selected_staff_id[s]})
          => (last'.res = "LastManagerError" /\ staff' = staff /\ pc'[s] = AtRest)
       /\ (delete_staff_DELETE(s) /\ Managers(staff) # {})
          => Managers(staff') # {}]_vars

\* C15: at least one Staff row has role Manager in every reachable state.
C15_AlwaysAManager == Managers(staff) # {}

\* C16: an account that owns an Order, of any status, is never deleted: every
\* Order's customer is an account of the store, and a delete of a customer
\* with an order is refused and leaves the Accounts table as it is, at the
\* order-count check or, when the order was committed after that check, at the
\* DELETE statement.
C16_CustomerWithOrdersStays ==
  /\ [](\A o \in 1..Len(orders) : orders[o].customer \in DOMAIN accounts)
  /\ [][\A s \in Sessions, c \in CustomerIds :
         (/\ HasOrders(orders, c)
          /\ \/ delete_selected_customer(s, c)
             \/ (pc[s].arg = c /\ delete_selected_customer_DELETE(s)))
         => /\ accounts' = accounts
            /\ pc'[s] = AtRest
            /\ last'.res \in {"ReferentialConflict", "ForeignKey"}]_vars

C16_Witness ==
  /\ last = Outcome("delete_selected_customer", "none", "ForeignKey")
  /\ \E o \in 1..Len(orders) : orders[o].customer \in DOMAIN accounts

\* every reference of the store names a row that exists
NoDangling ==
  /\ \A o \in 1..Len(orders) :
       orders[o].staff \in DOMAIN staff /\ orders[o].customer \in DOMAIN accounts
  /\ \A i \in 1..Len(orderItems) :
       orderItems[i].book \in DOMAIN books /\ orderItems[i].order \in 1..Len(orders)
  /\ \A b \in DOMAIN books : books[b].updBy \in DOMAIN staff
  /\ \A e \in 1..Len(bookLog) :
       bookLog[e].by \in DOMAIN staff /\ bookLog[e].book \in DOMAIN books

\* C17: in every reachable state every Order's staff and customer, every
\* OrderItem's book, every Book's last-updated-by and every BookLog entry's
\* actor name a row that exists; a session whose Staff row has been deleted
\* commits no order and changes no Book and no BookLog entry.
C17_NoDanglingReferences ==
  /\ []NoDangling
  /\ [][\A s \in Sessions :
         (/\ current_staff[s].id \notin DOMAIN staff
          /\ \/ \E st \in {"Completed", "Pending"}, c \in CustomerIds : place_order(s, st, c)
             \/ \E q \in QuantityTexts, p \in PriceTexts : update_book(s, q, p))
         => UNCHANGED store]_vars

C17_Witness ==
  /\ last = Outcome("place_order", "Completed", "ForeignKey")
  /\ \E s \in Sessions :
       /\ current_staff[s].id \notin DOMAIN staff
       /\ cart[s] # <<>>
       /\ \A i \in 1..Len(cart[s]) : cart[s][i].book \in DOMAIN books
  /\ accounts # <<>>

\* the sum over the items of order o of quantity times price at order time
OrderTotal(o) ==
  SumSeq([i \in 1..Len(ItemsOf(o)) |-> ItemsOf(o)[i].qty * ItemsOf(o)[i].price])

\* C18: in every reachable state each Order's total equals the sum over its
\* OrderItems of quantity times price at order time, and no step (a complete,
\* a cancel, a later price edit of the book) changes the total of an Order
\* already committed.
C18_TotalIsSumOfItems ==
  /\ [](\A o \in 1..Len(orders) : orders[o].total = OrderTotal(o))
  /\ [][\A o \in 1..Len(orders) :
         o <= Len(orders') /\ orders'[o].total = orders[o].total]_vars

C18_Witness ==
  /\ last.op = "update_order_status" /\ last.res = "Success"
  /\ \E o \in 1..Len(orders), i \in 1..Len(orderItems) :
       /\ orders[o].status # "Pending"
       /\ orders[o].total > 0
       /\ orderItems[i].order = o
       /\ orderItems[i].book \in DOMAIN books
       /\ books[orderItems[i].book].price # orderItems[i].price

\* no two rows of a table share the value of a unique column
UniqueContacts(rows) ==
  \A i, j \in DOMAIN rows :
    i # j => (rows[i].email # rows[j].email /\ rows[i].phone # rows[j].phone)

\* another row than self holds the phone or the email
Taken(rows, self, phone, email) ==
  \E i \in DOMAIN rows : i # self /\ (rows[i].phone = phone \/ rows[i].email = email)

\* C19: in every reachable state no two Staff rows share an email or a phone
\* and no two Accounts rows share a phone or an email; adding or updating a
\* staff member or an account with a phone or email that another row holds
\* fails with DuplicateConstraint and leaves the store unchanged.
C19_UniqueContacts ==
  /\ [](UniqueContacts(staff) /\ UniqueContacts(accounts))
  /\ [][\A s \in ContactsSessions :
         /\ \A ph \in StaffPhones, e \in StaffEmails :
              /\ (add_staff(s, "Clerk", ph, e, AdminPassword) /\ Taken(staff, NoId, ph, e))
                   => (last'.res = "DuplicateConstraint" /\ UNCHANGED store)
              /\ (/\ update_staff(s, "Manager", ph, e, "")
                  /\ selected_staff_id[s] \in DOMAIN staff
                  /\ Taken(staff, selected_staff_id[s], ph, e))
                   => (last'.res = "DuplicateConstraint" /\ UNCHANGED store)
         /\ \A ph \in AccountPhones, e \in AccountEmails :
              /\ (add_customer(s, ph, e) /\ Taken(accounts, NoId, ph, e))
                   => (last'.res = "DuplicateConstraint" /\ UNCHANGED store)
              /\ (/\ update_customer(s, ph, e)
                  /\ selected_update_customer_id[s] \in DOMAIN accounts
                  /\ Taken(accounts, selected_update_customer_id[s], ph, e))
                   => (last'.res = "DuplicateConstraint" /\ UNCHANGED store)]_vars

C19_Witness ==
  /\ last = Outcome("update_staff", "none", "DuplicateConstraint")
  /\ Cardinality(DOMAIN staff) = 3
  /\ Cardinality(DOMAIN accounts) = 2

\* C20: adding (book, quantity) to the cart appends exactly one line, with
\* that book and quantity, iff the book exists, the quantity is > 0 and the
\* quantity is <= the book's stock at that moment, whatever the cart already
\* holds; otherwise the cart is unchanged; either way no row of the store
\* changes.
C20_CartAdd ==
  [][\A s \in Sessions, b \in BookIds, q \in QtyInputs :
       add_to_cart(s, b, q)
       => /\ UNCHANGED store
          /\ IF b \in DOMAIN books /\ q > 0 /\ q <= books[b].qty
             THEN /\ Len(cart'[s]) = Len(cart[s]) + 1
                  /\ SubSeq(cart'[s], 1, Len(cart[s])) = cart[s]
                  /\ cart'[s][Len(cart'[s])].book = b
                  /\ cart'[s][Len(cart'[s])].qty = q
             ELSE cart' = cart]_vars

C20_Witness ==
  \E s \in Sessions, b \in DOMAIN books :
    /\ Len(cart[s]) = 2
    /\ \A i \in 1..2 : cart[s][i].book = b /\ cart[s][i].qty <= books[b].qty
    /\ QtyFor(cart[s], b) > books[b].qty
    /\ books[b].qty = MaxQty

\* C21: a cart line carries the book's catalog price of the moment it was
\* added; no later step (a catalog price edit included) changes a line already
\* in a cart; and a successful commit writes each line's price to its
\* OrderItem and uses it in the order total.
C21_PriceSnapshot ==
  [][\A s \in Sessions :
       /\ \A b \in BookIds, q \in QtyInputs :
            (add_to_cart(s, b, q) /\ cart'[s] # cart[s])
            => ParseMoney(cart'[s][Len(cart'[s])].price) = books[b].price
       /\ \/ cart'[s] = <<>>
          \/ /\ Len(cart'[s]) >= Len(cart[s])
             /\ SubSeq(cart'[s], 1, Len(cart[s])) = cart[s]
       /\ \A st \in {"Completed", "Pending"}, c \in CustomerIds :
            (place_order(s, st, c) /\ last'.res = "Success")
            => /\ \A i \in 1..Len(cart[s]) :
                    orderItems'[Len(orderItems) + i].price = ParseMoney(cart[s][i].price)
               /\ orders'[Len(orders')].total =
                    SumSeq([i \in 1..Len(cart[s]) |->
                              cart[s][i].qty * ParseMoney(cart[s][i].price)])]_vars

C21_Witness ==
  /\ last.op = "place_order" /\ last.res = "Success"
  /\ \E i \in 1..Len(orderItems) :
       /\ orderItems[i].book \in DOMAIN books
       /\ orderItems[i].price = 150
       /\ books[orderItems[i].book].price = 1
       /\ orders[orderItems[i].order].total = 150 * orderItems[i].qty

\* C22: a valid update_book on an existing book by a session whose staff id
\* exists stores the submitted quantity and price, sets the book's
\* last-updated-by to that staff id and appends exactly one UPDATE entry with
\* that actor; when the staff id no longer exists in Staff, neither the Book
\* row nor the BookLog changes.
C22_EditAttribution ==
  [][\A s \in Sessions, q \in QuantityTexts, p \in PriceTexts :
       (/\ update_book(s, q, p)
        /\ selected_update_book_id[s] \in DOMAIN books
        /\ int(q) > 0)
       => LET b == selected_update_book_id[s]
              id == current_staff[s].id IN
          IF id \in DOMAIN staff
          THEN /\ books' = [books EXCEPT ![b] =
                                [qty |-> int(q), price |-> float(p), updBy |-> id]]
               /\ bookLog' = Append(bookLog, [book |-> b, action |-> "UPDATE", by |-> id])
          ELSE books' = books /\ bookLog' = bookLog]_vars

C22_Witness ==
  /\ \E b \in DOMAIN books :
       /\ books[b].updBy = 2
       /\ bookLog[Len(bookLog)] = [book |-> b, action |-> "UPDATE", by |-> 2]
  /\ Len(bookLog) = 2

\* C23: a login succeeds iff both fields are filled, a Staff row has the
\* email and the digest of the password equals that row's stored digest; then
\* the session holds that row's id and role; otherwise the session stays
\* unauthenticated; no login changes a row of the store.
C23_Authentication ==
  [][\A s \in Sessions, e \in LoginEmails, p \in LoginPasswords :
       authenticate_staff(s, e, p)
       => /\ UNCHANGED store
          /\ IF /\ e # "" /\ p # ""
                /\ \E i \in DOMAIN staff :
                     staff[i].email = e /\ staff[i].pwd = hash_password(p)
             THEN \E i \in DOMAIN staff :
                    /\ staff[i].email = e
                    /\ current_staff'[s] = [id |-> i, role |-> staff[i].role]
             ELSE ~LoggedIn(s)']_vars

C23_Witness ==
  /\ 2 \in DOMAIN staff
  /\ current_staff[1].id = 1
  /\ current_staff[2].id = 2
  /\ current_staff[2].role = "Librarian"
  /\ staff[2].pwd = hash_password("guess")

\* a step of one of the Staff Management handlers run by session s
StaffHandler(s) ==
  \/ \E i \in 1..MaxStaff : load_staff_details(s, i)
  \/ \E r \in LoginRoles : add_staff(s, r, SecondPhone, SecondEmail, "guess")
  \/ \E r \in LoginRoles, p \in {"", "guess"} :
       /\ selected_staff_id[s] \in DOMAIN staff
       /\ update_staff(s, r, staff[selected_staff_id[s]].phone,
                       staff[selected_staff_id[s]].email, p)
  \/ delete_staff(s)
  \/ delete_staff_DELETE(s)

\* C24: a session that logged in with role Clerk or Librarian never runs a
\* handler that adds, updates or deletes a Staff row and never opens the
\* reports, while the catalog, the customers and the order desk are open to
\* every logged-in session whatever its role.
C24_RoleGating ==
  /\ [][\A s \in Sessions :
         current_staff[s].role \in {"Clerk", "Librarian"}
         => ~StaffHandler(s) /\ ~show_reports(s)]_vars
  /\ [](\A s \in Sessions :
         (LoggedIn(s) /\ pc[s] = AtRest)
         => /\ ENABLED order_management(s)
            /\ ENABLED add_book(s, "1", "0.01")
            /\ ENABLED add_customer(s, "5550000001", "reader@example.com"))

C24_Witness ==
  /\ 2 \in DOMAIN staff
  /\ current_staff[1].role = "Manager"
  /\ current_staff[2].role = "Clerk"
  /\ orderWindow[2]
  /\ selected_staff_id[2] = NoId
  /\ staff[2].role = "Manager"

\* the role now stored for the staff member session s logged in as
StoredRole(s) ==
  IF current_staff[s].id \in DOMAIN staff THEN staff[current_staff[s].id].role ELSE "none"

\* C30: the role a session holds is the one read at login and never changes
\* while it is logged in, and the staff handlers stay open to a session that
\* logged in as Manager whatever role is stored for that staff member now.
C30_RoleFixedAtLogin ==
  /\ [][\A s \in Sessions : LoggedIn(s) => current_staff'[s] = current_staff[s]]_vars
  /\ [](\A s \in Sessions :
         (current_staff[s].role = "Manager" /\ pc[s] = AtRest)
         => /\ ENABLED delete_staff(s)
            /\ ENABLED update_staff(s, "Clerk", SecondPhone, SecondEmail, "")
            /\ nextStaffId <= MaxStaff
               => ENABLED add_staff(s, "Clerk", SecondPhone, SecondEmail, "guess"))

\* both sessions logged in as the one Manager there was, that staff member
\* was made a Clerk, and after that a session added the second staff member
C30_Witness ==
  /\ \A s \in Sessions : current_staff[s] = [id |-> 1, role |-> "Manager"]
  /\ \A s \in Sessions : StoredRole(s) = "Clerk"
  /\ 2 \in DOMAIN staff
  /\ nextStaffId = 3
  /\ staff[2].role = "Librarian"
  /\ last = Outcome("add_staff", "none", "Success")

\* C27: delete_staff on the session's own staff id is refused as a deletion of
\* the logged-in staff member, also when that staff member is the last
\* Manager, and leaves the store as it is; no session gets to the DELETE of
\* its own row.
C27_NoSelfDelete ==
  [][\A s \in Sessions :
       /\ (delete_staff(s) /\ selected_staff_id[s] = current_staff[s].id)
          => /\ UNCHANGED <<store, pc>>
             /\ last' = Outcome("delete_staff", "none", "SelfDelete")
       /\ delete_staff_DELETE(s) => pc[s].arg # current_staff[s].id]_vars

\* the last Manager, not alone in the table, was refused the deletion of
\* their own row
C27_Witness ==
  /\ last = Outcome("delete_staff", "none", "SelfDelete")
  /\ 2 \in DOMAIN staff
  /\ \E s \in Sessions :
       /\ LoggedIn(s)
       /\ selected_staff_id[s] = current_staff[s].id
       /\ Managers(staff) = {current_staff[s].id}

\* C26: place_order either writes one order and empties the cart of its
\* session, reporting success, or it leaves every cart and the store as they
\* were, reporting the failure; without a customer or with an empty cart it
\* is the latter.
C26_CartAfterCommit ==
  [][\A s \in Sessions, st \in {"Completed", "Pending"}, c \in CustomerIds \cup {NoId} :
       place_order(s, st, c)
       => /\ \/ /\ Len(orders') = Len(orders) + 1
                /\ cart' = [cart EXCEPT ![s] = <<>>]
                /\ last'.res = "Success"
             \/ /\ UNCHANGED store
                /\ cart' = cart
                /\ last'.res # "Success"
          /\ (c = NoId \/ cart[s] = <<>>) => UNCHANGED store]_vars

\* a commit as Completed was rolled back on the stock CHECK and the lines are
\* still in the cart
C26_Witness ==
  /\ last = Outcome("place_order", "Completed", "InsufficientStock")
  /\ \E s \in Sessions : cart[s] # <<>> /\ orders = <<>> /\ orderItems = <<>>

\* what an order handler may do to Books and BookLog when it decrements the
\* stock for a sequence of lines: quantities only, and one UPDATE entry a
\* line, each by the staff id last-updated-by held before
DecrementOnly(lines) ==
  /\ DOMAIN books' = DOMAIN books
  /\ \A b \in DOMAIN books :
       /\ books'[b].updBy = books[b].updBy
       /\ books'[b].price = books[b].price
  /\ Len(bookLog') = Len(bookLog) + (IF books' = books THEN 0 ELSE Len(lines))
  /\ SubSeq(bookLog', 1, Len(bookLog)) = bookLog
  /\ \A i \in (Len(bookLog) + 1)..Len(bookLog') :
       /\ bookLog'[i].action = "UPDATE"
       /\ bookLog'[i].book \in DOMAIN books
       /\ bookLog'[i].by = books[bookLog'[i].book].updBy

\* C28: a step of place_order or update_order_status changes no book's
\* last-updated-by or price, and the BookLog entries it writes, one for each
\* decremented line, are UPDATE entries by the staff id the book's
\* last-updated-by held, not by the staff member of the session.
C28_DecrementKeepsUpdatedBy ==
  [][\A s \in Sessions :
       /\ \A st \in {"Completed", "Pending"}, c \in CustomerIds \cup {NoId} :
            place_order(s, st, c) => DecrementOnly(cart[s])
       /\ \A o \in 1..MaxOrders, st \in {"Completed", "Cancelled"} :
            update_order_status(s, Row(o), st) => DecrementOnly(ItemsOf(o))]_vars

\* staff member 2 completed an order of a book last updated by staff member 1
C28_Witness ==
  /\ last = Outcome("update_order_status", "Completed", "Success")
  /\ orders # <<>>
  /\ orders[1].staff = 2
  /\ current_staff[2].id = 2
  /\ 1 \in DOMAIN books
  /\ books[1].updBy = 1
  /\ bookLog[Len(bookLog)] = [book |-> 1, action |-> "UPDATE", by |-> 1]

\* C29: the DELETE of a book that an order item names fails on the FOREIGN KEY
\* and leaves the store as it was: the Book row with its quantity, and the
\* BookLog without the DELETE entry of the trigger.
C29_OrderedBookStays ==
  [][\A s \in Sessions :
       (/\ delete_selected_book_DELETE(s)
        /\ \E i \in 1..Len(orderItems) : orderItems[i].book = pc[s].arg)
       => /\ UNCHANGED store
          /\ last' = Outcome("delete_selected_book", "none", "ForeignKey")]_vars

\* the deletion of the ordered book was refused
C29_Witness ==
  /\ last = Outcome("delete_selected_book", "none", "ForeignKey")
  /\ orderItems # <<>>
  /\ orderItems[1].book \in DOMAIN books
  /\ \A i \in 1..Len(bookLog) : bookLog[i].action # "DELETE"

\* the texts that are a strictly positive integer, and those that are a
\* non-negative number
PositiveIntegers == {"1", "2"}
NonNegativeNumbers == {"0", "0.01", "1.50"}

\* C25: add_book or update_book with a Quantity text that is not a strictly
\* positive integer, or a Price text that is not a non-negative number,
\* leaves the store as it was; and whatever the texts, the quantity a book
\* form writes is above 0.
C25_InvalidBookRejected ==
  [][\A s \in Sessions, q \in QuantityEntries, p \in PriceEntries :
       (add_book(s, q, p) \/ update_book(s, q, p))
       => /\ (q \notin PositiveIntegers \/ p \notin NonNegativeNumbers) => UNCHANGED store
          /\ (q \notin PositiveIntegers \/ p \notin NonNegativeNumbers)
             => last'.res \in {"ValidationError", "none"}
          /\ \A b \in DOMAIN books' :
               (b \notin DOMAIN books \/ books'[b] # books[b])
               => books'[b].qty > 0 /\ books'[b].price >= 0]_vars

\* the book was added and edited, and a submission of the update form was
\* rejected after that
C25_Witness ==
  /\ last = Outcome("update_book", "none", "ValidationError")
  /\ \E s \in Sessions : selected_update_book_id[s] \in DOMAIN books
  /\ Len(bookLog) = 2
  /\ bookLog[2].action = "UPDATE"

====
